---- MODULE Spec2Model ----
(***************************************************************************)
(* Code Guardian AI: the App component's state and its three asynchronous  *)
(* handlers (handleFetchRepo, handleFileSelect, handleAnalyzeRepo), the    *)
(* tree builder buildFileTree and the two gateways (githubService,         *)
(* geminiService).                                                         *)
(*                                                                         *)
(* Strings the code inspects character by character (paths, names,         *)
(* extensions) are sequences of one-character strings.  An optional value  *)
(* (T | null) is a sequence of length 0 or 1.                              *)
(***************************************************************************)
EXTENDS Integers, Sequences, FiniteSets, TLC

\* ------------------------------------------------------------------ bounds
\* Number of asynchronous handler invocations (fetch, select, analyze) in a run.
MaxTasks == 3

\* Number of entries of a remote listing given to the listing pipeline.
MaxEntries == 3

\* ----------------------------------------------------------- optional values
None == <<>>
Some(x) == <<x>>
IsSome(o) == Len(o) = 1
Get(o) == o[1]

Range(s) == {s[k] : k \in 1..Len(s)}

\* ------------------------------------------------------------------ strings
RECURSIVE IndexFrom(_, _, _)
\* String.prototype.indexOf from position k (1-based); 0 when absent.
IndexFrom(s, c, k) ==
    IF k > Len(s) THEN 0
    ELSE IF s[k] = c THEN k
    ELSE IndexFrom(s, c, k + 1)

RECURSIVE LastIndexOf(_, _, _)
\* String.prototype.lastIndexOf searching down from position k (1-based);
\* 0 when absent (the code's -1).
LastIndexOf(s, c, k) ==
    IF k < 1 THEN 0
    ELSE IF s[k] = c THEN k
    ELSE LastIndexOf(s, c, k - 1)

\* s.substring(from) with from 0-based; a negative start counts as 0.
Substring(s, from) ==
    LET f == IF from < 0 THEN 0 ELSE from
    IN SubSeq(s, f + 1, Len(s))

RECURSIVE Split(_)
\* path.split('/'): always at least one part; empty parts are kept.
Split(s) ==
    LET k == IndexFrom(s, "/", 1)
    IN IF k = 0 THEN <<s>>
       ELSE <<SubSeq(s, 1, k - 1)>> \o Split(SubSeq(s, k + 1, Len(s)))

RECURSIVE Join(_)
\* parts.join('/')
Join(parts) ==
    IF Len(parts) = 0 THEN <<>>
    ELSE IF Len(parts) = 1 THEN parts[1]
    ELSE parts[1] \o <<"/">> \o Join(Tail(parts))

\* Collation rank of the characters the model's names use: punctuation
\* before letters, letters alphabetically.
CharRank(c) ==
    CASE c = "." -> 1
      [] c = "a" -> 2
      [] c = "b" -> 3
      [] c = "c" -> 4
      [] c = "d" -> 5
      [] c = "h" -> 6
      [] c = "m" -> 7
      [] c = "r" -> 8
      [] c = "s" -> 9
      [] OTHER -> 10

RECURSIVE LocaleCompare(_, _)
\* a.localeCompare(b): negative, zero or positive.
LocaleCompare(a, b) ==
    IF Len(a) = 0 /\ Len(b) = 0 THEN 0
    ELSE IF Len(a) = 0 THEN -1
    ELSE IF Len(b) = 0 THEN 1
    ELSE IF CharRank(a[1]) < CharRank(b[1]) THEN -1
    ELSE IF CharRank(a[1]) > CharRank(b[1]) THEN 1
    ELSE LocaleCompare(Tail(a), Tail(b))

\* --------------------------------------------------------------- tree builder
NoSha == "undefined"

\* The node created at buildFileTree's lines 40-46.
NewNode(arr, index, sha) ==
    LET isLastPart == index = Len(arr)
    IN [name |-> arr[index],
        path |-> Join(SubSeq(arr, 1, index)),
        type |-> IF isLastPart THEN "blob" ELSE "tree",
        children |-> <<>>,
        sha |-> IF isLastPart THEN sha ELSE NoSha]

\* children.find(child => child.name === part): position of the first match, or 0.
FindChild(children, part) ==
    IF \E k \in 1..Len(children) : children[k].name = part
    THEN CHOOSE k \in 1..Len(children) :
            /\ children[k].name = part
            /\ \A j \in 1..(k - 1) : children[j].name # part
    ELSE 0

RECURSIVE InsertParts(_, _, _, _)
\* The inner forEach over the parts of one path, from part `index` on,
\* applied to the children of currentNode.
InsertParts(children, arr, index, sha) ==
    LET pos == FindChild(children, arr[index])
        childNode == IF pos = 0 THEN NewNode(arr, index, sha) ELSE children[pos]
        walked == IF index = Len(arr) THEN childNode
                  ELSE [childNode EXCEPT
                          !.children = InsertParts(childNode.children, arr, index + 1, sha)]
    IN IF pos = 0 THEN Append(children, walked)
       ELSE [children EXCEPT ![pos] = walked]

RECURSIVE InsertFiles(_, _)
\* files.forEach(file => ...) over root.children.
InsertFiles(children, files) ==
    IF Len(files) = 0 THEN children
    ELSE InsertFiles(InsertParts(children, Split(files[1].path), 1, files[1].sha),
                     Tail(files))

\* The comparator of sortNodes.
CompareNodes(a, b) ==
    IF a.type = "tree" /\ b.type = "blob" THEN -1
    ELSE IF a.type = "blob" /\ b.type = "tree" THEN 1
    ELSE LocaleCompare(a.name, b.name)

RECURSIVE InsertSorted(_, _)
\* One step of a stable sort: x goes after every element not greater than it.
InsertSorted(sorted, x) ==
    IF Len(sorted) = 0 THEN <<x>>
    ELSE IF CompareNodes(x, sorted[1]) < 0 THEN <<x>> \o sorted
    ELSE <<sorted[1]>> \o InsertSorted(Tail(sorted), x)

RECURSIVE StableSort(_)
\* Array.prototype.sort with CompareNodes (stable).
StableSort(nodes) ==
    IF Len(nodes) = 0 THEN <<>>
    ELSE InsertSorted(StableSort(SubSeq(nodes, 1, Len(nodes) - 1)), nodes[Len(nodes)])

RECURSIVE sortNodes(_)
\* Sorts a sibling list, then the children of its tree-kind nodes.
sortNodes(nodes) ==
    LET sorted == StableSort(nodes)
    IN [k \in 1..Len(sorted) |->
          IF sorted[k].type = "tree"
          THEN [sorted[k] EXCEPT !.children = sortNodes(sorted[k].children)]
          ELSE sorted[k]]

buildFileTree(files) == sortNodes(InsertFiles(<<>>, files))

\* ------------------------------------------------------------ batch selection
\* The allow-list of handleAnalyzeRepo (and of githubService).
SOURCE_CODE_EXTENSIONS ==
    {
      <<".", "j", "s">>, <<".", "j", "s", "x">>, <<".", "t", "s">>,
      <<".", "t", "s", "x">>, <<".", "p", "y">>, <<".", "j", "a", "v", "a">>,
      <<".", "c">>, <<".", "c", "p", "p">>, <<".", "h">>,
      <<".", "h", "p", "p">>, <<".", "c", "s">>, <<".", "g", "o">>,
      <<".", "r", "s">>, <<".", "s", "w", "i", "f", "t">>, <<".", "k", "t">>,
      <<".", "k", "t", "s">>, <<".", "r", "b">>, <<".", "p", "h", "p">>,
      <<".", "m">>, <<".", "s", "c", "a", "l", "a">>, <<".", "h", "t", "m", "l">>,
      <<".", "c", "s", "s">>, <<".", "s", "c", "s", "s">>, <<".", "l", "e", "s", "s">>,
      <<".", "v", "u", "e">>, <<".", "s", "v", "e", "l", "t", "e">>
    }

\* file.path.substring(file.path.lastIndexOf('.'))
PathExtension(path) == Substring(path, LastIndexOf(path, ".", Len(path)) - 1)

IsSourcePath(path) == PathExtension(path) \in SOURCE_CODE_EXTENSIONS

RECURSIVE collectFiles(_)
\* Depth-first, in child order: a blob is pushed, anything else is descended.
collectFiles(nodes) ==
    IF Len(nodes) = 0 THEN <<>>
    ELSE LET node == nodes[1]
             here == IF node.type = "blob"
                     THEN <<[path |-> node.path, type |-> "blob", sha |-> node.sha]>>
                     ELSE collectFiles(node.children)
         IN here \o collectFiles(Tail(nodes))

\* allFiles.filter(file => SOURCE_CODE_EXTENSIONS.has(...))
FilterSource(files) == SelectSeq(files, LAMBDA f : IsSourcePath(f.path))

filesToReview(tree) == FilterSource(collectFiles(tree))

\* ------------------------------------------------------ the remote repositories
\* What the hosting API holds: for each existing repository the entries of its
\* recursive tree listing, in the API's order.  "nx" does not exist.
RepoNames == {"r1", "r2", "nx"}

RemoteTree(repo) ==
    CASE repo = "r1" ->
           << [path |-> <<"r", ".", "m", "d">>, type |-> "blob", sha |-> "s1"],
              [path |-> <<"s">>, type |-> "tree", sha |-> "s2"],
              [path |-> <<"s", "/", "a", ".", "c">>, type |-> "blob", sha |-> "s3"],
              [path |-> <<"s", "/", "b", ".", "h">>, type |-> "blob", sha |-> "s4"] >>
      [] repo = "r2" ->
           << [path |-> <<"r", ".", "m", "d">>, type |-> "blob", sha |-> "s5"] >>
      [] OTHER -> <<>>

RepoExists(repo) == repo \in {"r1", "r2"}

RemoteHasBlob(repo, path) ==
    \E e \in Range(RemoteTree(repo)) : e.type = "blob" /\ e.path = path

\* --------------------------------------------------------------- githubService
\* The token of line 11: a non-empty constant of the build.
GITHUB_TOKEN == "github_pat"

\* What the hosting API can answer to one getRepoTree call.  The first request:
\* "404" no such repository, "rateLimited" status 403 because the request
\* quota is exhausted, "403" status 403 for any other reason, "500" any other
\* status.  The second request: "tree500" a status that is not ok, "truncated"
\* a listing marked truncated, "ok" a complete listing.
ListingOutcomes == {"ok", "truncated", "tree500", "404", "rateLimited", "403", "500"}

\* The answers a call for repository `repo` can get.
RepoTreeOutcomes(repo) ==
    (IF RepoExists(repo) THEN {"ok", "truncated", "tree500"} ELSE {"404"})
        \cup {"rateLimited", "403", "500"}

\* Whether the call returns a listing (lines 76-89 are reached and return).
ListingReturned(outcome) == outcome \in {"ok", "truncated"}

\* A variant that returns the blobs in the listing's order, without putting
\* the source files first.
RepoFiles_ListingOrder(tree) ==
    LET kept == SelectSeq(tree, LAMBDA f : f.type = "blob" /\ f.path # <<>>)
    IN [k \in 1..Len(kept) |->
          [path |-> kept[k].path, type |-> kept[k].type, sha |-> kept[k].sha]]

\* Lines 81-89: the blobs with a path, source files first.
RepoFiles(tree) ==
    LET kept == SelectSeq(tree, LAMBDA f : f.type = "blob" /\ f.path # <<>>)
        allFiles == [k \in 1..Len(kept) |->
                       [path |-> kept[k].path, type |-> kept[k].type, sha |-> kept[k].sha]]
        sourceFiles == SelectSeq(allFiles, LAMBDA f : IsSourcePath(f.path))
        otherFiles == SelectSeq(allFiles, LAMBDA f : ~IsSourcePath(f.path))
    IN sourceFiles \o otherFiles

\* The message of the Error getRepoTree throws: the one thrown at lines 58-73
\* with the prefix the catch block of lines 91-97 puts before it.
RepoTreeError(outcome) ==
    CASE outcome = "404" ->
           "Could not retrieve repository files: Repository not found. Please check the URL."
      [] outcome \in {"403", "rateLimited"} ->
           IF GITHUB_TOKEN # ""
           THEN "Could not retrieve repository files: GitHub API request forbidden. The provided GITHUB_TOKEN may be invalid or lack necessary permissions."
           ELSE "Could not retrieve repository files: GitHub API rate limit exceeded for unauthenticated requests. Please set a GITHUB_TOKEN environment variable to increase the rate limit."
      [] outcome = "500" ->
           "Could not retrieve repository files: Failed to fetch repository data. Status: 500"
      [] OTHER ->
           "Could not retrieve repository files: Failed to fetch repository file tree. Status: 500"

\* The ways one getFileContent call can end: the decoded text, a response
\* that is not ok, or an encoding other than base64.
FileContentOutcomes(repo, path) ==
    (IF RemoteHasBlob(repo, path) THEN {"ok", "encoding"} ELSE {}) \cup {"status"}

\* The decoded text of a file, named by where it came from.
ContentOf(repo, path) == [repo |-> repo, path |-> path]

\* The message of the Error getFileContent throws (lines 103-113).
FileContentError(outcome) ==
    IF outcome = "status"
    THEN "Could not retrieve file content: Failed to fetch file content. Status: 404"
    ELSE "Could not retrieve file content: Unsupported file encoding received from GitHub."

\* --------------------------------------------------------------- geminiService
ApiKeys == {"", "k"}

\* The ways the backend call of reviewCode can end.
ReviewOutcomes == {"ok", "invalidKey", "failed"}

\* reviewCode's guard at lines 303-305: thrown before any backend call.
ReviewKeyMissing(key) == key = ""

MissingKeyMessage == "Gemini API Key is missing. Please provide it before running an analysis."

\* The parsed ReviewResult, named by the request it answers.
ReviewOf(fileName, code) == [file |-> fileName, code |-> code]

\* The message of the Error reviewCode throws from its catch (lines 342-348).
ReviewError(outcome) ==
    IF outcome = "invalidKey"
    THEN "Invalid Gemini API Key. Please check your key and try again."
    ELSE "Failed to get code review from Gemini. Please check the console for more details."

\* ------------------------------------------------------------------- the App
VARIABLES
    loading,            \* LoadingState
    error,              \* string | null
    apiKey,             \* string
    fileTree,           \* TreeNode[]
    repoOwnerAndName,   \* {owner, repo} | null
    selectedFile,       \* GitHubFile | null
    fileContent,        \* string | null
    review,             \* ReviewResult | null
    repoReviewResults,  \* {[path]: ReviewResult} | null
    reviewProgress,     \* {processed, total} | null
    tasks,              \* the handler invocations that reached an await, in start order
    calls,              \* the gateway calls in flight
    cancelSignalled,    \* the batch runs whose caller has asked for cancellation
    remote,             \* what the hosting API answers to one listing request
    listed,             \* what getRepoTree made of it: GitHubFile[] or an Error | null
    built,              \* what buildFileTree made of the files: TreeNode[] | null
    toReview            \* what the batch's filter keeps of the tree: GitHubFile[] | null

\* The listing pipeline on its own: getRepoTree, buildFileTree, the filter of
\* handleAnalyzeRepo, each applied to the output of the one before.
pipeline == <<remote, listed, built, toReview>>

vars == <<loading, error, apiKey, fileTree, repoOwnerAndName, selectedFile,
          fileContent, review, repoReviewResults, reviewProgress, tasks, calls,
          cancelSignalled, pipeline>>

Owner == "o"

RepoRefs == {[owner |-> Owner, repo |-> r] : r \in RepoNames}

\* One handler invocation: the values its closure captured (repo, key), its
\* locals (file, files, i, results, content), the await it is suspended at
\* (pc), and what it has done so far: the gateway calls that returned (log),
\* the paths its catch reported with console.error (logged) and the last
\* value it passed to setReviewProgress (progress).
NewTask(kind, pc, repo, key, file, files) ==
    [kind |-> kind, pc |-> pc, repo |-> repo, key |-> key, file |-> file,
     files |-> files, i |-> 0, results |-> <<>>, content |-> None,
     log |-> <<>>, logged |-> {}, progress |-> None]

TaskIds == 1..Len(tasks)

NoRef == [owner |-> "", repo |-> ""]

\* The invocation has returned: its closure and its locals are gone, what it
\* did (files, results, log, logged, progress) stays on record.
Finish(task) ==
    [task EXCEPT !.pc = "done", !.repo = NoRef, !.key = "", !.file = None,
                 !.content = None]

Put(id, task) ==
    IF id = Len(tasks) + 1 THEN Append(tasks, task) ELSE [tasks EXCEPT ![id] = task]

Call(id, op, repo, path) == [task |-> id, op |-> op, repo |-> repo, path |-> path]

Event(op, path, ok) == [op |-> op, path |-> path, ok |-> ok]

\* The mount effect (lines 377-382) has read the stored key, if any.
AppInit ==
    /\ loading = "IDLE"
    /\ error = None
    /\ apiKey \in ApiKeys
    /\ fileTree = <<>>
    /\ repoOwnerAndName = None
    /\ selectedFile = None
    /\ fileContent = None
    /\ review = None
    /\ repoReviewResults = None
    /\ reviewProgress = None
    /\ tasks = <<>>
    /\ calls = {}
    /\ cancelSignalled = {}

\* The App with no listing request under separate study.
Init ==
    /\ AppInit
    /\ remote = [outcome |-> "ok", tree |-> <<>>]
    /\ listed = None
    /\ built = None
    /\ toReview = None

handleApiKeyChange(key) ==
    /\ key # apiKey
    /\ apiKey' = key
    /\ UNCHANGED <<loading, error, fileTree, repoOwnerAndName, selectedFile, fileContent,
                   review, repoReviewResults, reviewProgress, tasks, calls, cancelSignalled, pipeline>>

\* ------------------------------------------------------------ handleFetchRepo
handleFetchRepo(ref) ==
    LET id == Len(tasks) + 1
    IN /\ Len(tasks) < MaxTasks
       /\ loading' = "LOADING_REPO"
       /\ error' = None
       /\ fileTree' = <<>>
       /\ selectedFile' = None
       /\ fileContent' = None
       /\ review' = None
       /\ repoReviewResults' = None
       /\ repoOwnerAndName' = Some(ref)
       /\ tasks' = Append(tasks, NewTask("fetchRepo", "getRepoTree", ref, "", None, <<>>))
       /\ calls' = calls \cup {Call(id, "getRepoTree", ref, <<>>)}
       /\ UNCHANGED <<apiKey, reviewProgress, cancelSignalled, pipeline>>

\* The await of line 400 resumes: try, catch and finally.
RepoTreeReturns(id) ==
    LET task == tasks[id]
        c == Call(id, "getRepoTree", task.repo, <<>>)
    IN /\ task.kind = "fetchRepo" /\ task.pc = "getRepoTree"
       /\ c \in calls
       /\ \E outcome \in RepoTreeOutcomes(task.repo.repo) :
             /\ IF ListingReturned(outcome)
                THEN /\ fileTree' = buildFileTree(RepoFiles(RemoteTree(task.repo.repo)))
                     /\ error' = error
                ELSE /\ error' = Some(RepoTreeError(outcome))
                     /\ fileTree' = fileTree
             /\ tasks' = [tasks EXCEPT ![id] = Finish(
                            [task EXCEPT !.log = Append(@, Event("getRepoTree", <<>>,
                                                                 ListingReturned(outcome)))])]
       /\ loading' = "IDLE"
       /\ calls' = calls \ {c}
       /\ UNCHANGED <<apiKey, repoOwnerAndName, selectedFile, fileContent, review,
                      repoReviewResults, reviewProgress, cancelSignalled, pipeline>>

\* ----------------------------------------------------------- handleFileSelect
\* A variant that never finds the key missing.
CredentialMissing_Never(key) == FALSE

\* The guard `!apiKey` of lines 412 and 439.
CredentialMissing(key) == key = ""

\* A variant that goes on to the review whatever the fetch did.
ReachesReview_Always(outcome) == TRUE

\* Whether control passes from the await of getFileContent to the call of
\* reviewCode (lines 425-427, 474-475): only when the promise resolved.
ReachesReview(outcome) == outcome = "ok"

\* The files the file browser offers: the blobs FileNode renders (a blob
\* node renders no children).
BrowsableFiles == Range(collectFiles(fileTree))

\* A variant that never takes a file for the selected one.
AlreadySelected_Never(selected, file) == FALSE

\* The guard `selectedFile?.path === file.path` of line 410.
AlreadySelected(selected, file) == IsSome(selected) /\ Get(selected).path = file.path

handleFileSelect(file) ==
    LET id == Len(tasks) + 1
        ref == Get(repoOwnerAndName)
    IN IF AlreadySelected(selectedFile, file) \/ ~IsSome(repoOwnerAndName)
       THEN UNCHANGED vars
       ELSE IF CredentialMissing(apiKey)
       THEN /\ error' = Some("Please enter your Gemini API Key to analyze files.")
            /\ UNCHANGED <<loading, apiKey, fileTree, repoOwnerAndName, selectedFile,
                           fileContent, review, repoReviewResults, reviewProgress,
                           tasks, calls, cancelSignalled, pipeline>>
       ELSE /\ Len(tasks) < MaxTasks
            /\ loading' = "LOADING_REVIEW"
            /\ error' = None
            /\ selectedFile' = Some(file)
            /\ fileContent' = None
            /\ review' = None
            /\ repoReviewResults' = None
            /\ tasks' = Append(tasks, NewTask("fileSelect", "getFileContent", ref, apiKey,
                                              Some(file), <<>>))
            /\ calls' = calls \cup {Call(id, "getFileContent", ref, file.path)}
            /\ UNCHANGED <<apiKey, fileTree, repoOwnerAndName, reviewProgress,
                           cancelSignalled, pipeline>>

\* The await of line 425 resumes.
SelectContentReturns(id) ==
    LET task == tasks[id]
        file == Get(task.file)
        c == Call(id, "getFileContent", task.repo, file.path)
        content == ContentOf(task.repo.repo, file.path)
    IN /\ task.kind = "fileSelect" /\ task.pc = "getFileContent"
       /\ c \in calls
       /\ \E outcome \in FileContentOutcomes(task.repo.repo, file.path) :
            LET logged == Append(task.log, Event("getFileContent", file.path, outcome = "ok"))
            IN IF ReachesReview(outcome)
               THEN /\ fileContent' = Some(content)
                    /\ IF ReviewKeyMissing(task.key)
                       THEN /\ error' = Some(MissingKeyMessage)
                            /\ loading' = "IDLE"
                            /\ tasks' = [tasks EXCEPT ![id] = Finish([task EXCEPT !.log = logged])]
                            /\ calls' = calls \ {c}
                       ELSE /\ tasks' = [tasks EXCEPT ![id].pc = "reviewCode", ![id].log = logged,
                                                      ![id].content = Some(content)]
                            /\ calls' = (calls \ {c}) \cup {Call(id, "reviewCode", task.repo, file.path)}
                            /\ UNCHANGED <<error, loading>>
               ELSE /\ error' = Some(FileContentError(outcome))
                    /\ loading' = "IDLE"
                    /\ tasks' = [tasks EXCEPT ![id] = Finish([task EXCEPT !.log = logged])]
                    /\ calls' = calls \ {c}
                    /\ UNCHANGED fileContent
       /\ UNCHANGED <<apiKey, fileTree, repoOwnerAndName, selectedFile, review,
                      repoReviewResults, reviewProgress, cancelSignalled, pipeline>>

\* The await of line 427 resumes.
SelectReviewReturns(id) ==
    LET task == tasks[id]
        file == Get(task.file)
        c == Call(id, "reviewCode", task.repo, file.path)
    IN /\ task.kind = "fileSelect" /\ task.pc = "reviewCode"
       /\ c \in calls
       /\ \E outcome \in ReviewOutcomes :
            /\ IF outcome = "ok"
               THEN /\ review' = Some(ReviewOf(file.path, Get(task.content)))
                    /\ error' = error
               ELSE /\ error' = Some(ReviewError(outcome))
                    /\ review' = review
            /\ tasks' = [tasks EXCEPT ![id] = Finish(
                           [task EXCEPT !.log = Append(@, Event("reviewCode", file.path,
                                                                outcome = "ok"))])]
       /\ loading' = "IDLE"
       /\ calls' = calls \ {c}
       /\ UNCHANGED <<apiKey, fileTree, repoOwnerAndName, selectedFile, fileContent,
                      repoReviewResults, reviewProgress, cancelSignalled, pipeline>>

\* ---------------------------------------------------------- handleAnalyzeRepo
\* A variant that never finds the filtered list empty.
NothingToReview_Never(files) == FALSE

\* Line 462.
NothingToReview(files) == Len(files) = 0

\* Line 468.
InitialProgress(n) == [processed |-> 0, total |-> n]

\* A variant that reports the loop index without the + 1.
NextProgress_NoIncrement(i, n) == [processed |-> i, total |-> n]

\* Line 480, in the finally block of iteration i (0-based).
NextProgress(i, n) == [processed |-> i + 1, total |-> n]

\* A variant that starts a fresh object for every result.
StoreResult_KeepsLast(results, path, reviewResult) == (path :> reviewResult)

\* A variant that writes the new result over every entry.
StoreResult_Clobbers(results, path, reviewResult) ==
    [p \in DOMAIN results \cup {path} |-> reviewResult]

\* Line 476: results[file.path] = reviewResult.
StoreResult(results, path, reviewResult) == (path :> reviewResult) @@ results

\* A variant whose catch block calls setError.
BatchCatch_SetsError(err, message) == Some(message)

\* Line 478: the catch block reports to the console and leaves `error` alone.
BatchCatch(err, message) == err

\* A variant that starts the fetches of all remaining files at once.
LoopCalls_AllAtOnce(id, ref, files, i) ==
    {Call(id, "getFileContent", ref, files[k].path) : k \in (i + 1)..Len(files)}

\* A variant whose iteration starts no fetch at all.
LoopCalls_None(id, ref, files, i) == {}

\* The gateway calls iteration i (0-based) starts before its first await:
\* the getFileContent of line 474 for filesToReview[i].
LoopCalls(id, ref, files, i) == {Call(id, "getFileContent", ref, files[i + 1].path)}

\* The loop test of line 471 for a run whose locals are `task`: either the
\* next iteration runs up to its first await, or lines 484-486 publish.
BatchContinue(id, task, callsLeft, progressNow, loadingNow, resultsNow) ==
    IF task.i < Len(task.files)
    THEN /\ tasks' = Put(id, [task EXCEPT !.pc = "getFileContent"])
         /\ calls' = callsLeft \cup LoopCalls(id, task.repo, task.files, task.i)
         /\ reviewProgress' = progressNow
         /\ loading' = loadingNow
         /\ repoReviewResults' = resultsNow
    ELSE /\ tasks' = Put(id, Finish(task))
         /\ calls' = callsLeft
         /\ repoReviewResults' = Some(task.results)
         /\ reviewProgress' = None
         /\ loading' = "IDLE"

\* The finally block of iteration task.i and the i++ of the loop.
IterationEnd(task) ==
    [task EXCEPT !.progress = Some(NextProgress(task.i, Len(task.files))),
                 !.i = task.i + 1,
                 !.content = None]

handleAnalyzeRepo ==
    LET id == Len(tasks) + 1
        ref == Get(repoOwnerAndName)
        files == filesToReview(fileTree)
        started == [NewTask("analyzeRepo", "getFileContent", ref, apiKey, None, files)
                      EXCEPT !.progress = Some(InitialProgress(Len(files)))]
    IN IF ~IsSome(repoOwnerAndName)
       THEN UNCHANGED vars
       ELSE IF CredentialMissing(apiKey)
       THEN /\ error' = Some("Please enter your Gemini API Key to analyze the repository.")
            /\ UNCHANGED <<loading, apiKey, fileTree, repoOwnerAndName, selectedFile,
                           fileContent, review, repoReviewResults, reviewProgress,
                           tasks, calls, cancelSignalled, pipeline>>
       ELSE /\ selectedFile' = None
            /\ review' = None
            /\ IF NothingToReview(files)
               THEN /\ error' = Some("No reviewable source code files found in this repository.")
                    /\ loading' = "IDLE"
                    /\ repoReviewResults' = None
                    /\ UNCHANGED <<reviewProgress, tasks, calls>>
               ELSE /\ Len(tasks) < MaxTasks
                    /\ error' = None
                    /\ BatchContinue(id, started, calls, Some(InitialProgress(Len(files))),
                                     "LOADING_REPO_REVIEW", None)
            /\ UNCHANGED <<apiKey, fileTree, repoOwnerAndName, fileContent, cancelSignalled, pipeline>>

\* The await of line 474 resumes.
BatchContentReturns(id) ==
    LET task == tasks[id]
        file == task.files[task.i + 1]
        c == Call(id, "getFileContent", task.repo, file.path)
        content == ContentOf(task.repo.repo, file.path)
    IN /\ task.kind = "analyzeRepo" /\ task.pc = "getFileContent"
       /\ c \in calls
       /\ \E outcome \in FileContentOutcomes(task.repo.repo, file.path) :
            LET returned == [task EXCEPT
                               !.log = Append(@, Event("getFileContent", file.path, outcome = "ok"))]
            IN IF ReachesReview(outcome) /\ ~ReviewKeyMissing(task.key)
               THEN /\ tasks' = [tasks EXCEPT ![id] = [returned EXCEPT !.pc = "reviewCode",
                                                                       !.content = Some(content)]]
                    /\ calls' = (calls \ {c}) \cup {Call(id, "reviewCode", task.repo, file.path)}
                    /\ UNCHANGED <<error, loading, repoReviewResults, reviewProgress>>
               ELSE /\ error' = BatchCatch(error, IF ReachesReview(outcome)
                                                  THEN MissingKeyMessage
                                                  ELSE FileContentError(outcome))
                    /\ BatchContinue(id,
                                     IterationEnd([returned EXCEPT !.logged = @ \cup {file.path}]),
                                     calls \ {c},
                                     Some(NextProgress(task.i, Len(task.files))),
                                     loading, repoReviewResults)
       /\ UNCHANGED <<apiKey, fileTree, repoOwnerAndName, selectedFile, fileContent, review,
                      cancelSignalled, pipeline>>

\* The await of line 475 resumes.
BatchReviewReturns(id) ==
    LET task == tasks[id]
        file == task.files[task.i + 1]
        c == Call(id, "reviewCode", task.repo, file.path)
    IN /\ task.kind = "analyzeRepo" /\ task.pc = "reviewCode"
       /\ c \in calls
       /\ \E outcome \in ReviewOutcomes :
            LET returned == [task EXCEPT
                               !.log = Append(@, Event("reviewCode", file.path, outcome = "ok"))]
                after == IF outcome = "ok"
                         THEN [returned EXCEPT
                                 !.results = StoreResult(@, file.path,
                                                         ReviewOf(file.path, Get(task.content)))]
                         ELSE [returned EXCEPT !.logged = @ \cup {file.path}]
            IN /\ error' = IF outcome = "ok" THEN error
                           ELSE BatchCatch(error, ReviewError(outcome))
               /\ BatchContinue(id, IterationEnd(after), calls \ {c},
                                Some(NextProgress(task.i, Len(task.files))),
                                loading, repoReviewResults)
       /\ UNCHANGED <<apiKey, fileTree, repoOwnerAndName, selectedFile, fileContent, review,
                      cancelSignalled, pipeline>>

\* ------------------------------------------------------------------- the UI
\* RepoForm: the input and the submit button are disabled while isLoading
\* (lines 147, 152, 495).
SubmitRepoForm(ref) ==
    /\ loading # "LOADING_REPO"
    /\ handleFetchRepo(ref)

\* FileNode's onClick on a blob (line 177); the browser is not disabled by
\* any loading state.
ClickFile(file) ==
    /\ file \in BrowsableFiles
    /\ handleFileSelect(file)

\* The "Analyze Entire Repo" button (line 497).
ClickAnalyze ==
    /\ loading = "IDLE" /\ Len(fileTree) # 0 /\ apiKey # ""
    /\ handleAnalyzeRepo

Next ==
    \/ \E key \in ApiKeys : handleApiKeyChange(key)
    \/ \E ref \in RepoRefs : SubmitRepoForm(ref)
    \/ \E file \in BrowsableFiles : ClickFile(file)
    \/ ClickAnalyze
    \/ \E id \in TaskIds : RepoTreeReturns(id)
    \/ \E id \in TaskIds : SelectContentReturns(id)
    \/ \E id \in TaskIds : SelectReviewReturns(id)
    \/ \E id \in TaskIds : BatchContentReturns(id)
    \/ \E id \in TaskIds : BatchReviewReturns(id)

Spec == Init /\ [][Next]_vars

\* The App when every gateway call of a batch run eventually returns or
\* fails: the promise the loop awaits is settled and its continuation is run.
SpecLive ==
    /\ Spec
    /\ WF_vars(\E id \in TaskIds : BatchContentReturns(id))
    /\ WF_vars(\E id \in TaskIds : BatchReviewReturns(id))

\* handleAnalyzeRepo called with no key configured, as the operation
\* reviewRepository of a caller that is not the App's own button (the button
\* is disabled while the key is empty, so a click never gets that far).
AnalyzeWithoutKey ==
    /\ apiKey = ""
    /\ handleAnalyzeRepo

NextCore ==
    \/ Next
    \/ AnalyzeWithoutKey

SpecCore == Init /\ [][NextCore]_vars

\* The caller of a batch run asks for its cancellation.  handleAnalyzeRepo
\* takes no argument and reads no state through which the request could
\* reach it; the request is recorded here and nowhere else.
SignalCancel(id) ==
    /\ tasks[id].kind = "analyzeRepo" /\ tasks[id].pc # "done"
    /\ id \notin cancelSignalled
    /\ cancelSignalled' = cancelSignalled \cup {id}
    /\ UNCHANGED <<loading, error, apiKey, fileTree, repoOwnerAndName, selectedFile,
                   fileContent, review, repoReviewResults, reviewProgress, tasks, calls,
                   pipeline>>

NextCancel ==
    \/ Next
    \/ \E id \in TaskIds : SignalCancel(id)

SpecCancel == Init /\ [][NextCancel]_vars

\* ----------------------------------------------------- the listing pipeline
\* The entries a remote listing is drawn from: files at the top level and in
\* directories, with and without an allow-listed extension, a path with a
\* '.' only in a directory segment, a dot-file, paths that are a '/'-prefix
\* of other paths, a tree-kind entry and a blob entry with an empty path.
EntryPool ==
    { [path |-> <<"a">>, type |-> "blob", sha |-> "s1"],
      [path |-> <<"a", "/", "b">>, type |-> "blob", sha |-> "s2"],
      [path |-> <<"a", "/", "d">>, type |-> "blob", sha |-> "s3"],
      [path |-> <<"a", "/", "c", ".", "c">>, type |-> "blob", sha |-> "s4"],
      [path |-> <<"b", ".", "h">>, type |-> "blob", sha |-> "s5"],
      [path |-> <<"a", ".", "c">>, type |-> "blob", sha |-> "s11"],
      [path |-> <<"a", ".", "c", "/", "d">>, type |-> "blob", sha |-> "s6"],
      [path |-> <<"a", ".", "c", "/", "b", ".", "h">>, type |-> "blob", sha |-> "s12"],
      [path |-> <<".", "c">>, type |-> "blob", sha |-> "s7"],
      [path |-> <<"r", ".", "m", "d">>, type |-> "blob", sha |-> "s8"],
      [path |-> <<"a">>, type |-> "tree", sha |-> "s9"],
      [path |-> <<>>, type |-> "blob", sha |-> "s10"] }

\* The listings of at most MaxEntries distinct entries, in every order.
Listings ==
    {t \in UNION {[1..n -> EntryPool] : n \in 0..MaxEntries} :
        \A i, j \in DOMAIN t : i # j => t[i] # t[j]}

\* The answers to one listing request: a listing, complete or truncated, or
\* a failure of the first or of the second request.
Remotes ==
    {[outcome |-> o, tree |-> t] : o \in {"ok", "truncated"}, t \in Listings}
        \cup {[outcome |-> o, tree |-> <<>>] :
                 o \in ListingOutcomes \ {"ok", "truncated"}}

\* getRepoTree on the answer: the files it returns or the Error it throws.
getRepoTree(answer) ==
    IF ListingReturned(answer.outcome)
    THEN [ok |-> TRUE, files |-> RepoFiles(answer.tree), message |-> ""]
    ELSE [ok |-> FALSE, files |-> <<>>, message |-> RepoTreeError(answer.outcome)]

app == <<loading, error, apiKey, fileTree, repoOwnerAndName, selectedFile,
         fileContent, review, repoReviewResults, reviewProgress, tasks, calls,
         cancelSignalled>>

InitPipeline ==
    /\ AppInit
    /\ remote \in Remotes
    /\ listed = None
    /\ built = None
    /\ toReview = None

\* handleFetchRepo's line 400.
ListFiles ==
    /\ listed = None
    /\ listed' = Some(getRepoTree(remote))
    /\ UNCHANGED <<app, remote, built, toReview>>

\* handleFetchRepo's line 401, reached when line 400 did not throw.
BuildTree ==
    /\ IsSome(listed) /\ Get(listed).ok
    /\ built = None
    /\ built' = Some(buildFileTree(Get(listed).files))
    /\ UNCHANGED <<app, remote, listed, toReview>>

\* handleAnalyzeRepo's lines 450-460 on the tree.
FilterTree ==
    /\ IsSome(built)
    /\ toReview = None
    /\ toReview' = Some(filesToReview(Get(built)))
    /\ UNCHANGED <<app, remote, listed, built>>

NextPipeline ==
    \/ ListFiles
    \/ BuildTree
    \/ FilterTree

SpecPipeline == InitPipeline /\ [][NextPipeline]_vars

\* ------------------------------------------------------------- batch runs
BatchIds == {id \in TaskIds : tasks[id].kind = "analyzeRepo"}

SelectIds == {id \in TaskIds : tasks[id].kind = "fileSelect"}

PathsOf(files) == {files[k].path : k \in 1..Len(files)}

\* The paths for which a gateway call of the run has failed so far.
FailedPaths(task) == {e.path : e \in {x \in Range(task.log) : ~x.ok}}

\* The attempt on path p is over: its fetch failed, or its review returned.
AttemptOver(log, p) ==
    \E e \in Range(log) :
        /\ e.path = p
        /\ \/ e.op = "reviewCode"
           \/ e.op = "getFileContent" /\ ~e.ok

Succeeded(log, op, p) == \E e \in Range(log) : e.op = op /\ e.path = p /\ e.ok

CallsOf(id) == {c \in calls : c.task = id}

Publishes(id) == tasks[id].pc # "done" /\ tasks'[id].pc = "done"

\* C1: when a batch run over N >= 1 files ends, the aggregate it publishes
\* has exactly the paths of the filtered files with no failed gateway call as
\* its keys, and the last value the run passed to setReviewProgress is
\* {processed: N, total: N} (the indicator itself is then cleared).
C1_AggregateOmitsFailures ==
    [][\A id \in BatchIds :
         Publishes(id) =>
           LET task == tasks'[id]
               n == Len(task.files)
           IN /\ n >= 1
              /\ repoReviewResults' = Some(task.results)
              /\ DOMAIN task.results = PathsOf(task.files) \ FailedPaths(task)
              /\ Cardinality(DOMAIN task.results) = n - Cardinality(FailedPaths(task))
              /\ task.progress = Some([processed |-> n, total |-> n])]_vars

\* A run over two files has ended with exactly one of them failed, and its
\* one-entry aggregate is the published one.
C1_Witness ==
    \E id \in BatchIds :
        /\ tasks[id].pc = "done"
        /\ Len(tasks[id].files) = 2
        /\ Cardinality(FailedPaths(tasks[id])) = 1
        /\ repoReviewResults = Some(tasks[id].results)
        /\ Cardinality(DOMAIN tasks[id].results) = 1

\* C2: a batch run has at most one gateway call outstanding, that call is
\* for the file at the loop index, and the attempt on every earlier file is
\* over; every fetch that has returned came after the attempts on all
\* earlier files were over.
C2_StrictlySequential ==
    \A id \in BatchIds :
        LET task == tasks[id]
            IndexOfPath(p) == CHOOSE k \in 1..Len(task.files) : task.files[k].path = p
        IN /\ Cardinality(CallsOf(id)) <= 1
           /\ \A c \in CallsOf(id) :
                /\ task.pc = c.op
                /\ c.path = task.files[task.i + 1].path
                /\ \A k \in 1..task.i : AttemptOver(task.log, task.files[k].path)
                /\ ~AttemptOver(task.log, c.path)
           /\ \A n \in 1..Len(task.log) :
                task.log[n].op = "getFileContent" =>
                  \A k \in 1..(IndexOfPath(task.log[n].path) - 1) :
                     AttemptOver(SubSeq(task.log, 1, n - 1), task.files[k].path)

\* The second file's fetch is outstanding after the first file's review returned.
C2_Witness ==
    \E id \in BatchIds :
        /\ tasks[id].i = 1
        /\ CallsOf(id) = {Call(id, "getFileContent", tasks[id].repo, tasks[id].files[2].path)}
        /\ \E e \in Range(tasks[id].log) : e.op = "reviewCode"

\* The attempts of a run that are over.
AttemptsOver(task) ==
    Cardinality({k \in 1..Len(task.files) : AttemptOver(task.log, task.files[k].path)})

\* A gateway call of task id returned in this step.
Returned(id) == Len(tasks'[id].log) = Len(tasks[id].log) + 1

LastEvent(task) == task.log[Len(task.log)]

C3_ProgressBounds ==
    /\ \A id \in BatchIds :
         LET task == tasks[id]
             p == Get(task.progress)
         IN /\ IsSome(task.progress)
            /\ 0 <= p.processed /\ p.processed <= p.total
            /\ p.total = Len(task.files)
            /\ p.processed = AttemptsOver(task)
    /\ IsSome(reviewProgress) =>
         /\ 0 <= Get(reviewProgress).processed
         /\ Get(reviewProgress).processed <= Get(reviewProgress).total

C3_ProgressStep ==
    \A id \in BatchIds :
        LET p == Get(tasks[id].progress)
            q == Get(tasks'[id].progress)
        IN /\ q.processed >= p.processed
           /\ q.total = p.total
           /\ Returned(id) /\ AttemptOver(tasks'[id].log, LastEvent(tasks'[id]).path)
                => q.processed = p.processed + 1
           /\ q # p /\ ~Publishes(id) => reviewProgress' = Some(q)

\* C3: the progress of a batch run satisfies 0 <= processed <= total, total
\* is the number of filtered files, processed never decreases, and processed
\* counts the files whose attempt is over, each exactly once, whether the
\* attempt succeeded or failed.
C3_ProgressMonotone == []C3_ProgressBounds /\ [][C3_ProgressStep]_vars

\* A run over two files shows 1/2 after its first file failed.
C3_Witness ==
    \E id \in BatchIds :
        /\ tasks[id].progress = Some([processed |-> 1, total |-> 2])
        /\ reviewProgress = tasks[id].progress
        /\ FailedPaths(tasks[id]) # {}

C4_EntriesSucceeded ==
    \A id \in BatchIds :
        LET task == tasks[id]
        IN /\ DOMAIN task.results \subseteq PathsOf(task.files)
           /\ \A p \in DOMAIN task.results :
                /\ Succeeded(task.log, "getFileContent", p)
                /\ Succeeded(task.log, "reviewCode", p)
                /\ p \notin FailedPaths(task)

C4_GrowsOnly ==
    /\ \A id \in BatchIds :
         LET r == tasks[id].results
             q == tasks'[id].results
         IN /\ DOMAIN r \subseteq DOMAIN q
            /\ \A p \in DOMAIN r : q[p] = r[p]
            /\ Cardinality(DOMAIN q \ DOMAIN r) <= 1
            /\ \A p \in DOMAIN q \ DOMAIN r :
                 /\ Returned(id)
                 /\ LastEvent(tasks'[id]) = Event("reviewCode", p, TRUE)
    /\ \A id \in (1..Len(tasks')) \ TaskIds : tasks'[id].results = <<>>

\* C4: the aggregate of a batch run starts empty and only grows: a path is
\* inserted in the step in which its review returns successfully, after its
\* fetch succeeded, and an entry is never removed or changed afterwards.
C4_AggregateOnlyGrows == []C4_EntriesSucceeded /\ [][C4_GrowsOnly]_vars

\* A run holds the first file's entry while the second file is in flight.
C4_Witness ==
    \E id \in BatchIds :
        /\ tasks[id].pc = "reviewCode"
        /\ tasks[id].i = 1
        /\ DOMAIN tasks[id].results = {tasks[id].files[1].path}

\* C5: when a gateway call of a batch run fails, the error indicator is left
\* as it is, the loop moves on to the next file, and after the last file the
\* run publishes its aggregate and returns to IDLE.
C5_FailuresAbsorbed ==
    [][\A id \in BatchIds :
         Returned(id) /\ ~LastEvent(tasks'[id]).ok =>
           LET task == tasks'[id]
           IN /\ error' = error
              /\ task.i = tasks[id].i + 1
              /\ LastEvent(task).path \in task.logged
              /\ IF task.i < Len(task.files)
                 THEN /\ task.pc = "getFileContent"
                      /\ Call(id, "getFileContent", task.repo, task.files[task.i + 1].path)
                           \in calls'
                 ELSE /\ task.pc = "done"
                      /\ repoReviewResults' = Some(task.results)
                      /\ loading' = "IDLE"]_vars

\* A run in which every file failed has published the empty aggregate, with
\* no error shown.
C5_Witness ==
    \E id \in BatchIds :
        /\ tasks[id].pc = "done"
        /\ FailedPaths(tasks[id]) = PathsOf(tasks[id].files)
        /\ repoReviewResults = Some(<<>>)
        /\ error = None

NoReviewableMessage == "No reviewable source code files found in this repository."

\* C6: a batch run over a tree none of whose files has an allow-listed
\* extension ends with the NoReviewableFiles error and IDLE, starts no
\* gateway call, publishes no aggregate and touches no progress value.
C6_EmptyFilterFails ==
    [][(/\ ClickAnalyze
        /\ \A f \in BrowsableFiles : ~IsSourcePath(f.path))
       => /\ error' = Some(NoReviewableMessage)
          /\ loading' = "IDLE"
          /\ calls' = calls
          /\ tasks' = tasks
          /\ repoReviewResults' = None
          /\ reviewProgress' = reviewProgress]_vars

\* The error is shown over a tree without source files, and no batch run exists.
C6_Witness ==
    /\ error = Some(NoReviewableMessage)
    /\ Len(fileTree) # 0
    /\ filesToReview(fileTree) = <<>>
    /\ BatchIds = {}
    /\ calls = {}
    /\ repoReviewResults = None
    /\ reviewProgress = None

\* What a handler that stops at its credential check leaves alone.
C7_NothingStarted ==
    /\ calls' = calls
    /\ tasks' = tasks
    /\ UNCHANGED <<selectedFile, fileContent, review, repoReviewResults, loading,
                   reviewProgress, fileTree, repoOwnerAndName>>

C7_SelectWithoutKey ==
    apiKey = "" /\ IsSome(repoOwnerAndName) =>
      \A file \in BrowsableFiles :
          (/\ ~(IsSome(selectedFile) /\ Get(selectedFile).path = file.path)
           /\ ClickFile(file))
          => /\ error' = Some("Please enter your Gemini API Key to analyze files.")
             /\ C7_NothingStarted

C7_AnalyzeWithoutKey ==
    apiKey = "" /\ IsSome(repoOwnerAndName) =>
      (handleAnalyzeRepo
         => /\ error' = Some("Please enter your Gemini API Key to analyze the repository.")
            /\ C7_NothingStarted)

\* No call is ever made on behalf of a handler that captured an empty key,
\* the review backend in particular is never contacted with one, and
\* reviewCode's own guard, which precedes its backend call, rejects it.
C7_NoCallWithoutKey ==
    /\ \A c \in calls : c.op \in {"getFileContent", "reviewCode"} => tasks[c.task].key # ""
    /\ \A key \in ApiKeys : key = "" => ReviewKeyMissing(key)

C8_ReviewOnlyAfterFetch ==
    \A id \in SelectIds \cup BatchIds :
        LET log == tasks[id].log
        IN /\ \A c \in CallsOf(id) :
                c.op = "reviewCode" =>
                  /\ Len(log) >= 1
                  /\ log[Len(log)] = Event("getFileContent", c.path, TRUE)
           /\ \A n \in 1..Len(log) :
                /\ log[n].op = "reviewCode" =>
                     /\ n > 1
                     /\ log[n - 1] = Event("getFileContent", log[n].path, TRUE)
                /\ log[n] = Event("getFileContent", log[n].path, FALSE) =>
                     /\ \A m \in (n + 1)..Len(log) :
                          ~(log[m].op = "reviewCode" /\ log[m].path = log[n].path)
                     /\ \A c \in CallsOf(id) :
                          ~(c.op = "reviewCode" /\ c.path = log[n].path)

\* A single-file review ended at its failed fetch, a batch run went past a
\* failed fetch: neither made a review call for that path.
C8_Witness ==
    /\ \E id \in SelectIds :
         /\ tasks[id].pc = "done"
         /\ Len(tasks[id].log) = 1
         /\ tasks[id].log[1].op = "getFileContent"
         /\ ~tasks[id].log[1].ok
    /\ \E id \in BatchIds :
         /\ tasks[id].i >= 1
         /\ tasks[id].log[1] = Event("getFileContent", tasks[id].files[1].path, FALSE)

\* C9: when the review phase of a single-file review fails, the error is set
\* and neither the fetched content nor a review is left in the state.
C9_NoPartialResult ==
    [][\A id \in SelectIds :
         (/\ Returned(id)
          /\ LastEvent(tasks'[id]).op = "reviewCode"
          /\ ~LastEvent(tasks'[id]).ok)
         => /\ IsSome(error')
            /\ review' = None
            /\ fileContent' = None]_vars

\* C10: once the caller of a batch run has signalled cancellation, the run
\* starts no call for a further file (the review of the file in flight may
\* still be started) and does not end by publishing its aggregate.
C10_CancelStopsRun ==
    [][\A id \in cancelSignalled :
         /\ \A c \in calls' \ calls : c.task = id => c.op = "reviewCode"
         /\ Publishes(id) => repoReviewResults' # Some(tasks'[id].results)]_vars

\* ------------------------------------------------------------ the built tree
RECURSIVE NodesOf(_)
\* Every node of a forest, whatever its kind, parents before children.
NodesOf(nodes) ==
    IF Len(nodes) = 0 THEN <<>>
    ELSE <<nodes[1]>> \o NodesOf(nodes[1].children) \o NodesOf(Tail(nodes))

\* The nodes of kind blob that have no children.
BlobLeaves(nodes) ==
    SelectSeq(NodesOf(nodes), LAMBDA n : n.type = "blob" /\ Len(n.children) = 0)

\* The files buildFileTree was given.
BuiltFrom == Get(listed).files

\* C11: the tree buildFileTree returns has as many blob-kind leaves as it was
\* given files, and the path of every leaf is the path of exactly one of the
\* files given, also when one path is a '/'-prefix of another.
C11_EveryFileALeaf ==
    IsSome(built) =>
        LET leaves == BlobLeaves(Get(built))
        IN /\ Len(leaves) = Len(BuiltFrom)
           /\ \A k \in 1..Len(leaves) :
                 Cardinality({j \in 1..Len(BuiltFrom) :
                                BuiltFrom[j].path = leaves[k].path}) = 1

\* The lists that hold the same files in another order.
Permuted(files) ==
    {[k \in 1..Len(files) |-> files[p[k]]] : p \in Permutations(1..Len(files))}

\* C12: buildFileTree returns the same tree (nodes, names, paths, kinds,
\* identifiers, child order) for every permutation of the files it was given.
C12_OrderIndependent ==
    IsSome(built) =>
        \A q \in Permuted(BuiltFrom) : buildFileTree(q) = Get(built)

\* A sibling list is ordered: no blob before a tree, and names of one kind
\* non-decreasing under localeCompare.
SiblingsSorted(nodes) ==
    \A i, j \in 1..Len(nodes) :
        i < j =>
          /\ ~(nodes[i].type = "blob" /\ nodes[j].type = "tree")
          /\ nodes[i].type = nodes[j].type
                => LocaleCompare(nodes[i].name, nodes[j].name) <= 0

\* The sibling lists of a forest: the top level and every node's children.
SiblingLists(nodes) == {nodes} \cup {n.children : n \in Range(NodesOf(nodes))}

\* C13: in the tree buildFileTree returns, the top level and the children of
\* every node have every tree-kind node before every blob-kind node, and the
\* names within each kind in non-decreasing order.
C13_SiblingOrder ==
    IsSome(built) => \A siblings \in SiblingLists(Get(built)) : SiblingsSorted(siblings)

\* C14: in the tree buildFileTree returns, a blob-kind node has no children
\* and the sha of the file given with its path, a tree-kind node has no sha,
\* and no two siblings have the same name.
C14_NodeShape ==
    IsSome(built) =>
        /\ \A n \in Range(NodesOf(Get(built))) :
              IF n.type = "blob"
              THEN /\ n.children = <<>>
                   /\ \E f \in Range(BuiltFrom) : f.path = n.path /\ f.sha = n.sha
              ELSE n.sha = NoSha
        /\ \A siblings \in SiblingLists(Get(built)) :
              \A i, j \in 1..Len(siblings) :
                  i # j => siblings[i].name # siblings[j].name

\* The extension of a path: from the last '.' of its final segment, if that
\* segment has one.
FinalSegmentExtension(path) ==
    LET parts == Split(path)
        segment == parts[Len(parts)]
        dot == LastIndexOf(segment, ".", Len(segment))
    IN IF dot = 0 THEN None ELSE Some(SubSeq(segment, dot, Len(segment)))

AllowListed(path) ==
    /\ IsSome(FinalSegmentExtension(path))
    /\ Get(FinalSegmentExtension(path)) \in SOURCE_CODE_EXTENSIONS

\* C15: the files the batch's filter keeps are exactly the blob leaves of the
\* tree whose final path segment has an allow-listed extension, and the
\* code's test on the whole path agrees with that rule on every path of the
\* tree; of a/c.c, b.h and r.md it keeps a/c.c and b.h.
C15_FilterByExtension ==
    IsSome(toReview) =>
        /\ \A n \in Range(NodesOf(Get(built))) : IsSourcePath(n.path) <=> AllowListed(n.path)
        /\ \A f \in Range(BuiltFrom) : IsSourcePath(f.path) <=> AllowListed(f.path)
        /\ {f.path : f \in Range(Get(toReview))}
              = {n.path : n \in {m \in Range(BlobLeaves(Get(built))) : AllowListed(m.path)}}
        /\ \A i, j \in 1..Len(Get(toReview)) :
              i # j => Get(toReview)[i].path # Get(toReview)[j].path
        /\ PathsOf(BuiltFrom) = {<<"a", "/", "c", ".", "c">>, <<"b", ".", "h">>,
                                 <<"r", ".", "m", "d">>}
              => PathsOf(Get(toReview)) = {<<"a", "/", "c", ".", "c">>, <<"b", ".", "h">>}

\* ------------------------------------------------------------- the listing
\* The position of a returned file's entry in the remote listing.
EntryOf(tree, f) ==
    CHOOSE k \in 1..Len(tree) :
        tree[k].type = "blob" /\ tree[k].path = f.path /\ tree[k].sha = f.sha

\* C19: the files getRepoTree returns are exactly the blob entries of the
\* remote listing that have a non-empty path, each once; every file with an
\* allow-listed extension comes before every other file, and inside each of
\* the two groups the files are in the listing's order.
C19_SourceFilesFirst ==
    (IsSome(listed) /\ Get(listed).ok) =>
        LET files == Get(listed).files
            tree == remote.tree
            blobs == {e \in Range(tree) : e.type = "blob" /\ e.path # <<>>}
        IN /\ Range(files) = {[path |-> e.path, type |-> e.type, sha |-> e.sha] : e \in blobs}
           /\ Len(files) = Cardinality(blobs)
           /\ \A i, j \in 1..Len(files) :
                 i < j =>
                   /\ ~(~AllowListed(files[i].path) /\ AllowListed(files[j].path))
                   /\ AllowListed(files[i].path) = AllowListed(files[j].path)
                         => EntryOf(tree, files[i]) < EntryOf(tree, files[j])

\* A listing with a tree-kind entry and with a source file after another
\* file has been returned: the entry is dropped and the source file moved up.
C19_Witness ==
    /\ IsSome(listed) /\ Get(listed).ok
    /\ \E e \in Range(remote.tree) : e.type = "tree"
    /\ LET files == Get(listed).files
       IN \E i, j \in 1..Len(files) :
             /\ i < j
             /\ EntryOf(remote.tree, files[i]) > EntryOf(remote.tree, files[j])

\* The failure a caller can tell from the Error getRepoTree throws: the Error
\* carries a message and nothing else.
ErrorKind(message) ==
    CASE message = "Could not retrieve repository files: Repository not found. Please check the URL."
           -> "NotFound"
      [] message = "Could not retrieve repository files: GitHub API rate limit exceeded for unauthenticated requests. Please set a GITHUB_TOKEN environment variable to increase the rate limit."
           -> "RateLimited"
      [] OTHER -> "TransportError"

\* C18: getRepoTree fails with NotFound when the repository does not exist,
\* with RateLimited when the request quota is exhausted and with
\* TransportError in every other failure, that of the second request
\* included; a truncated listing is returned like a complete one.
C18_ErrorKinds ==
    IsSome(listed) =>
        LET result == Get(listed)
            kind == ErrorKind(result.message)
        IN CASE remote.outcome = "404" -> ~result.ok /\ kind = "NotFound"
             [] remote.outcome = "rateLimited" -> ~result.ok /\ kind = "RateLimited"
             [] remote.outcome \in {"403", "500", "tree500"} ->
                  ~result.ok /\ kind = "TransportError"
             [] OTHER ->
                  /\ result.ok
                  /\ Len(result.files)
                       = Cardinality({k \in 1..Len(remote.tree) :
                                        /\ remote.tree[k].type = "blob"
                                        /\ remote.tree[k].path # <<>>})

\* ------------------------------------------------------------- the analyses
\* The single-file reviews and batch runs that got past their checks.
AnalysisIds == SelectIds \cup BatchIds

\* C16: while the analysis started last has not yet produced its result, the
\* state holds no ReviewResult and no aggregate: those of earlier analyses
\* were discarded when it started and none of them appears afterwards, also
\* when an earlier analysis was still in flight.
C16_NoStaleResult ==
    \A id \in AnalysisIds :
        (tasks[id].pc # "done" /\ \A other \in AnalysisIds : other <= id)
            => review = None /\ repoReviewResults = None

\* The events of a run's log for one gateway operation on one path.
EventsFor(task, op, p) == {k \in 1..Len(task.log) : task.log[k].op = op /\ task.log[k].path = p}

\* The run has ended: every filtered file was fetched exactly once and
\* reviewed once if its fetch succeeded, the aggregate is the published one
\* and nothing is loading.
BatchTerminated(id) ==
    LET task == tasks[id]
    IN /\ task.pc = "done"
       /\ task.i = Len(task.files)
       /\ \A k \in 1..Len(task.files) :
             LET p == task.files[k].path
             IN /\ Cardinality(EventsFor(task, "getFileContent", p)) = 1
                /\ Cardinality(EventsFor(task, "reviewCode", p))
                     = IF Succeeded(task.log, "getFileContent", p) THEN 1 ELSE 0
       /\ CallsOf(id) = {}
       /\ repoReviewResults = Some(task.results)
       /\ loading = "IDLE"

\* C17: every batch run that got past the credential and the empty-filter
\* checks ends, given that every gateway call returns or fails: each of its
\* N files has been attempted exactly once, its aggregate is published and
\* loading is IDLE.
C17_BatchTerminates ==
    \A id \in 1..MaxTasks :
        (id \in BatchIds /\ tasks[id].pc # "done")
            ~> (id \in BatchIds /\ BatchTerminated(id))

\* A run over two files has ended with both reviewed.
C17_Witness ==
    \E id \in BatchIds :
        /\ BatchTerminated(id)
        /\ Len(tasks[id].files) = 2
        /\ Len(tasks[id].log) = 4
        /\ \A e \in Range(tasks[id].log) : e.ok

\* No single-file review is between its start and its return.
NoSelectInFlight == \A id \in SelectIds : tasks[id].pc = "done"

\* C20: when no single-file review is in flight and a selected file and a
\* review are both present, the review is the one the review gateway gave
\* for the selected file's path and the stored content is that file's, also
\* when a second file was selected while the first one's fetch or review
\* was in flight.
C20_ReviewMatchesSelection ==
    (NoSelectInFlight /\ IsSome(selectedFile) /\ IsSome(review)) =>
        /\ Get(review).file = Get(selectedFile).path
        /\ IsSome(fileContent)
        /\ Get(fileContent).path = Get(selectedFile).path
        /\ Get(review).code = Get(fileContent)

\* ------------------------------------------------------------ the operations
\* The handler invocations that have not returned yet.
InFlight == {id \in TaskIds : tasks[id].pc # "done"}

\* C21: loading is IDLE only when no fetch, single-file review or batch run
\* is in flight; at most one batch run is running at a time, so the progress
\* values of two runs never interleave.
C21_IdleMeansQuiet ==
    /\ loading = "IDLE" => InFlight = {} /\ calls = {}
    /\ Cardinality(InFlight \cap BatchIds) <= 1

\* The fetch requested last.
LastFetch == CHOOSE id \in TaskIds :
                /\ tasks[id].kind = "fetchRepo"
                /\ \A other \in TaskIds : tasks[other].kind = "fetchRepo" => other <= id

\* C22: when no operation is in flight, the tree is the one built from the
\* listing of the repository the last fetch request named (empty if that
\* fetch failed), and every key of a published aggregate is the path of a
\* blob of that tree, also when the fetch was started while an earlier fetch
\* or a batch run was in flight.
C22_StateOfLastFetch ==
    (InFlight = {} /\ IsSome(repoOwnerAndName)) =>
        /\ fileTree = IF tasks[LastFetch].log[1].ok
                      THEN buildFileTree(RepoFiles(RemoteTree(Get(repoOwnerAndName).repo)))
                      ELSE <<>>
        /\ IsSome(repoReviewResults) =>
              DOMAIN Get(repoReviewResults) \subseteq PathsOf(collectFiles(fileTree))

\* C23: a click on the file that is the selected one changes no state and
\* starts no gateway call, and no single-file review is ever started for the
\* path that is selected: after a failed review the same file is not tried
\* again while it stays selected.
C23_ReselectIsNoOp ==
    [][/\ \A file \in BrowsableFiles :
             (/\ IsSome(selectedFile)
              /\ Get(selectedFile).path = file.path
              /\ ClickFile(file))
                => UNCHANGED vars
       /\ \A id \in 1..Len(tasks') :
             (/\ id \notin TaskIds
              /\ tasks'[id].kind = "fileSelect"
              /\ IsSome(selectedFile))
                => /\ Get(tasks'[id].file).path # Get(selectedFile).path
                   /\ \A c \in calls' \ calls : c.path # Get(selectedFile).path]_vars

\* The review of the selected file has failed, nothing is in flight and the
\* file browser still offers the file.
C23_Witness ==
    /\ IsSome(selectedFile)
    /\ Get(selectedFile) \in BrowsableFiles
    /\ InFlight = {}
    /\ review = None
    /\ \E id \in SelectIds :
          /\ LastEvent(tasks[id]).path = Get(selectedFile).path
          /\ LastEvent(tasks[id]).op = "reviewCode"
          /\ ~LastEvent(tasks[id]).ok

====
